---- MODULE Spec2Model ----
(***************************************************************************)
(* The call-tool handler of the GitHub MCP server (src/src/index.ts).      *)
(* One invocation is a run of the async handler registered for             *)
(* CallToolRequestSchema: its synchronous prefix (dispatch on the tool     *)
(* name, validation, first upstream request) is one step, and every        *)
(* `await` of an axios call is a suspension point whose continuation is    *)
(* one further step.                                                       *)
(***************************************************************************)
EXTENDS Integers, Sequences, FiniteSets, TLC

(***************************************************************************)
(* Bounds.                                                                 *)
(***************************************************************************)
\* longest `content` argument, in UTF-16 code units
MaxContentLen == 2

(***************************************************************************)
(* JavaScript values.  A value carries its type tag, so that `undefined`   *)
(* and the string "undefined" are different values.                        *)
(***************************************************************************)
Undefined == [t |-> "undefined"]
Str(s) == [t |-> "string", v |-> s]
Bool(b) == [t |-> "boolean", v |-> b]
\* an object is its ordered list of <<key, value>> properties
Obj(props) == [t |-> "object", v |-> props]
\* an array is its list of elements
Arr(elems) == [t |-> "array", v |-> elems]

\* property access `data.key` on a non-nullish value
Get(data, key) ==
    IF data.t = "object" /\ \E n \in 1..Len(data.v) : data.v[n][1] = key
    THEN data.v[CHOOSE n \in 1..Len(data.v) :
                    /\ data.v[n][1] = key
                    /\ \A m \in (n + 1)..Len(data.v) : data.v[m][1] # key][2]
    ELSE Undefined

\* `a ?? b`
Nullish(a, b) == IF a = Undefined THEN b ELSE a

\* `${x}` inside a template literal
Template(x) ==
    CASE x.t = "undefined" -> "undefined"
      [] x.t = "boolean" -> IF x.v THEN "true" ELSE "false"
      [] OTHER -> x.v

RECURSIVE Spaces(_)
Spaces(n) == IF n = 0 THEN "" ELSE " " \o Spaces(n - 1)

\* JSON.stringify(value, null, 2) on strings, booleans, objects and arrays
\* (none of the modelled strings needs escaping)
RECURSIVE Stringify(_, _)
RECURSIVE StringifyProps(_, _, _)
RECURSIVE StringifyElems(_, _, _)
StringifyProps(props, n, indent) ==
    IF n > Len(props) THEN ""
    ELSE (IF n > 1 THEN ",\n" ELSE "")
         \o Spaces(indent) \o "\"" \o props[n][1] \o "\": "
         \o Stringify(props[n][2], indent)
         \o StringifyProps(props, n + 1, indent)
StringifyElems(elems, n, indent) ==
    IF n > Len(elems) THEN ""
    ELSE (IF n > 1 THEN ",\n" ELSE "")
         \o Spaces(indent) \o Stringify(elems[n], indent)
         \o StringifyElems(elems, n + 1, indent)
Stringify(value, indent) ==
    CASE value.t = "string" -> "\"" \o value.v \o "\""
      [] value.t = "boolean" -> IF value.v THEN "true" ELSE "false"
      [] value.t = "object" ->
            IF Len(value.v) = 0 THEN "{}"
            ELSE "{\n" \o StringifyProps(value.v, 1, indent + 2)
                 \o "\n" \o Spaces(indent) \o "}"
      [] value.t = "array" ->
            IF Len(value.v) = 0 THEN "[]"
            ELSE "[\n" \o StringifyElems(value.v, 1, indent + 2)
                 \o "\n" \o Spaces(indent) \o "]"
JsonStringify(value) ==
    Stringify(value, 0)

(***************************************************************************)
(* Buffer.from(content).toString('base64'): the string's UTF-16 code units *)
(* are encoded as UTF-8 bytes, the bytes as base64 text.                   *)
(***************************************************************************)
IsHighSurrogate(u) == u >= 55296 /\ u <= 56319
IsLowSurrogate(u) == u >= 56320 /\ u <= 57343

\* the UTF-8 bytes of one code point
Utf8CodePoint(c) ==
    IF c < 128 THEN <<c>>
    ELSE IF c < 2048 THEN <<192 + (c \div 64), 128 + (c % 64)>>
    ELSE IF c < 65536
         THEN <<224 + (c \div 4096), 128 + ((c \div 64) % 64), 128 + (c % 64)>>
    ELSE <<240 + (c \div 262144), 128 + ((c \div 4096) % 64),
           128 + ((c \div 64) % 64), 128 + (c % 64)>>

\* Buffer.from(string): a surrogate pair is one code point, a lone surrogate
\* is replaced by U+FFFD
RECURSIVE Utf8Encode(_)
Utf8Encode(units) ==
    IF units = <<>> THEN <<>>
    ELSE LET u == Head(units) IN
         IF IsHighSurrogate(u) /\ Len(units) >= 2 /\ IsLowSurrogate(units[2])
         THEN Utf8CodePoint(65536 + (u - 55296) * 1024 + (units[2] - 56320))
              \o Utf8Encode(Tail(Tail(units)))
         ELSE IF IsHighSurrogate(u) \/ IsLowSurrogate(u)
         THEN Utf8CodePoint(65533) \o Utf8Encode(Tail(units))
         ELSE Utf8CodePoint(u) \o Utf8Encode(Tail(units))

Base64Alphabet ==
    << "A", "B", "C", "D", "E", "F", "G", "H", "I", "J", "K", "L", "M",
       "N", "O", "P", "Q", "R", "S", "T", "U", "V", "W", "X", "Y", "Z",
       "a", "b", "c", "d", "e", "f", "g", "h", "i", "j", "k", "l", "m",
       "n", "o", "p", "q", "r", "s", "t", "u", "v", "w", "x", "y", "z",
       "0", "1", "2", "3", "4", "5", "6", "7", "8", "9", "+", "/" >>
Base64Char(n) == Base64Alphabet[n + 1]

\* buf.toString('base64'): three bytes give four characters, a last group of
\* one or two bytes is padded with '='
RECURSIVE Base64Encode(_)
Base64Encode(bytes) ==
    IF Len(bytes) = 0 THEN <<>>
    ELSE IF Len(bytes) = 1
    THEN << Base64Char(bytes[1] \div 4), Base64Char((bytes[1] % 4) * 16),
            "=", "=" >>
    ELSE IF Len(bytes) = 2
    THEN << Base64Char(bytes[1] \div 4),
            Base64Char((bytes[1] % 4) * 16 + (bytes[2] \div 16)),
            Base64Char((bytes[2] % 16) * 4), "=" >>
    ELSE << Base64Char(bytes[1] \div 4),
            Base64Char((bytes[1] % 4) * 16 + (bytes[2] \div 16)),
            Base64Char((bytes[2] % 16) * 4 + (bytes[3] \div 64)),
            Base64Char(bytes[3] % 64) >>
         \o Base64Encode(SubSeq(bytes, 4, Len(bytes)))

\* Buffer.from(content, 'latin1'): one byte per code unit, high bits dropped
MutToBase64Latin1(content) ==
    Base64Encode([n \in 1..Len(content) |-> content[n] % 256])
\* Buffer.from(content).toString('base64')
ToBase64(content) ==
    Base64Encode(Utf8Encode(content))

(***************************************************************************)
(* Errors and handler outcomes.                                            *)
(***************************************************************************)
\* new McpError(ErrorCode.<code>, message)
McpError(code, message) ==
    [type |-> "McpError", code |-> code, message |-> message]
\* `args.<field>` when request.params.arguments is undefined
TypeError ==
    [type |-> "TypeError",
     message |-> "Cannot read properties of undefined"]
\* what axios rejects with: `response` is undefined when no response arrived
AxiosError(response, message) ==
    [type |-> "AxiosError", message |-> message, response |-> response]
Response(status, data) ==
    [t |-> "response", status |-> status, data |-> data]
\* axios.isAxiosError(error)
IsAxiosError(error) == error.type = "AxiosError"

\* the handler has not finished / returned `value` / threw `value`
Pending == [kind |-> "pending", value |-> Undefined]
Returned(value) == [kind |-> "returned", value |-> value]
Thrown(value) == [kind |-> "thrown", value |-> value]

\* `${response.data}` instead of JSON.stringify(response.data, null, 2)
MutSuccessEnvelopeNoStringify(data) ==
    [content |-> << [type |-> "text",
                     text |-> IF data.t = "string" THEN data.v
                              ELSE "[object Object]"] >>,
     isError |-> Undefined]
\* { content: [{ type: 'text', text: JSON.stringify(response.data, null, 2) }] }
SuccessEnvelope(data) ==
    [content |-> << [type |-> "text", text |-> JsonStringify(data)] >>,
     isError |-> Undefined]

\* `error.message` alone: the upstream body's message is not looked at
MutErrorMessageTransportOnly(error) ==
    Str(error.message)
\* error.response?.data.message ?? error.message
ErrorMessage(error) ==
    Nullish(IF error.response = Undefined THEN Undefined
            ELSE Get(error.response.data, "message"),
            Str(error.message))

\* { content: [{ type: 'text', text: `GitHub API error: ${...}` }], isError: true }
ErrorEnvelope(error) ==
    [content |-> << [type |-> "text",
                     text |-> "GitHub API error: "
                              \o Template(ErrorMessage(error))] >>,
     isError |-> Bool(TRUE)]

\* the catch block of each handler: an axios error is reported in an
\* envelope, anything else is thrown again
Catch(error) ==
    IF IsAxiosError(error) THEN Returned(ErrorEnvelope(error))
    ELSE Thrown(error)

(***************************************************************************)
(* The upstream: what an awaited axios call can settle with.               *)
(***************************************************************************)
Resolved(data) == [settled |-> "resolved", data |-> data]
Rejected(error) == [settled |-> "rejected", error |-> error]

AxiosErrors ==
    { AxiosError(Response(404, Obj(<< <<"message", Str("Not Found")>> >>)),
                 "Request failed with status code 404"),
      AxiosError(Response(502, Str("")),
                 "Request failed with status code 502"),
      AxiosError(Undefined, "Network Error") }
\* an exception that is not an axios error
OtherErrors == { [type |-> "Error", message |-> "unexpected"] }

Settlements(bodies) ==
    {Resolved(b) : b \in bodies}
        \cup {Rejected(e) : e \in AxiosErrors \cup OtherErrors}

\* GET /users/{username}
UserProfileBodies ==
    { Obj(<< <<"login", Str("octocat")>>, <<"site_admin", Bool(FALSE)>> >>),
      Obj(<< >>) }
\* POST /user/repos
RepoBodies ==
    { Obj(<< <<"full_name", Str("alice/x")>>, <<"private", Bool(TRUE)>> >>) }
\* GET /user: the authenticated user
Logins == {"alice", "bob"}
IdentityBodies == { Obj(<< <<"login", Str(l)>> >>) : l \in Logins }
\* GET contents: a file (with its blob sha) or a directory listing
Hashes == {"abc123", "def456"}
FileBodies ==
    { Obj(<< <<"type", Str("file")>>, <<"sha", Str(h)>> >>) : h \in Hashes }
        \cup { Arr(<< Obj(<< <<"type", Str("file")>>,
                            <<"sha", Str("abc123")>> >>) >>) }
\* PUT contents
PutBodies ==
    { Obj(<< <<"content", Obj(<< <<"sha", Str("0f3c9a")>> >>)>>,
             <<"commit", Obj(<< >>)>> >>) }

(***************************************************************************)
(* Call-tool requests.                                                     *)
(***************************************************************************)
ToolNames == {"get_user", "create_repo", "push_to_repo"}
UnknownNames == {"delete_repo", "get_users"}

\* UTF-16 code units: 'A', U+00E9, a high and a low surrogate
CodeUnits == {65, 233, 55357, 56832}
RECURSIVE SeqsUpTo(_, _)
SeqsUpTo(S, n) ==
    IF n = 0 THEN {<< >>}
    ELSE LET shorter == SeqsUpTo(S, n - 1) IN
         shorter \cup {Append(s, x) : s \in shorter, x \in S}
Contents == SeqsUpTo(CodeUnits, MaxContentLen)

\* request.params.arguments: a mapping whose absent keys read as undefined,
\* or no mapping at all
ArgumentMappings ==
    [username : {Undefined, Str(""), Str("octocat")},
     repo_name : {Undefined, Str(""), Str("x")},
     description : {Undefined, Str("d")},
     private : {Undefined, Bool(TRUE), Bool(FALSE)},
     file_path : {Undefined, Str(""), Str("README.md")},
     content : {Undefined} \cup {Str(c) : c \in Contents},
     message : {Undefined, Str("m")}]
Arguments == ArgumentMappings \cup {Undefined}

\* `!x` on undefined and strings
Not(x) == x.t = "undefined" \/ (x.t = "string" /\ Len(x.v) = 0)

Request(method, path, body) ==
    [method |-> method, path |-> path, body |-> body]

(***************************************************************************)
(* The handler.  Each operator below gives what the handler does from one  *)
(* position up to its next await or its end: the position reached, the     *)
(* upstream request issued (if any) and the outcome.                       *)
(***************************************************************************)
Await(position, req) ==
    [pc |-> position, issued |-> <<req>>, outcome |-> Pending]
Finish(outcome) ==
    [pc |-> "done", issued |-> << >>, outcome |-> outcome]

\* lines 166-173
GetUserBegin(args) ==
    IF args = Undefined THEN Finish(Thrown(TypeError))
    ELSE IF Not(args.username)
    THEN Finish(Thrown(McpError("InvalidParams", "Username is required")))
    ELSE Await("awaitGetUser",
               Request("GET", "/users/" \o Template(args.username), Undefined))

\* `private: false`: the supplied value is not passed on
MutCreateRepoBeginPrivateIgnored(args) ==
    IF args = Undefined THEN Finish(Thrown(TypeError))
    ELSE IF Not(args.repo_name)
    THEN Finish(Thrown(McpError("InvalidParams",
                                "Repository name is required")))
    ELSE Await("awaitCreateRepo",
               Request("POST", "/user/repos",
                       [name |-> args.repo_name,
                        description |-> args.description,
                        private |-> Bool(FALSE)]))
\* lines 199-210
CreateRepoBegin(args) ==
    IF args = Undefined THEN Finish(Thrown(TypeError))
    ELSE IF Not(args.repo_name)
    THEN Finish(Thrown(McpError("InvalidParams",
                                "Repository name is required")))
    ELSE Await("awaitCreateRepo",
               Request("POST", "/user/repos",
                       [name |-> args.repo_name,
                        description |-> args.description,
                        private |-> Nullish(args.private, Bool(FALSE))]))

\* one check and one message per required field
MutPushToRepoBeginPerField(args) ==
    IF args = Undefined THEN Finish(Thrown(TypeError))
    ELSE IF Not(args.repo_name)
    THEN Finish(Thrown(McpError("InvalidParams",
                                "Repository name is required")))
    ELSE IF Not(args.file_path)
    THEN Finish(Thrown(McpError("InvalidParams", "File path is required")))
    ELSE IF Not(args.content)
    THEN Finish(Thrown(McpError("InvalidParams", "Content is required")))
    ELSE Await("awaitUser", Request("GET", "/user", Undefined))
\* lines 236-249
PushToRepoBegin(args) ==
    IF args = Undefined THEN Finish(Thrown(TypeError))
    ELSE IF Not(args.repo_name) \/ Not(args.file_path) \/ Not(args.content)
    THEN Finish(Thrown(McpError("InvalidParams",
            "Repository name, file path, and content are required")))
    ELSE Await("awaitUser", Request("GET", "/user", Undefined))

\* the final `else` missing: an unknown name falls into the last handler
MutBeginNoUnknownBranch(name, args) ==
    IF name = "get_user" THEN GetUserBegin(args)
    ELSE IF name = "create_repo" THEN CreateRepoBegin(args)
    ELSE PushToRepoBegin(args)
\* lines 163-166, 199, 236, 297-302: dispatch on request.params.name
Begin(name, args) ==
    IF name = "get_user" THEN GetUserBegin(args)
    ELSE IF name = "create_repo" THEN CreateRepoBegin(args)
    ELSE IF name = "push_to_repo" THEN PushToRepoBegin(args)
    ELSE Finish(Thrown(McpError("MethodNotFound", "Unknown tool: " \o name)))

\* lines 173-198, 206-235, 264-296: after the last await of a handler
End(settlement) ==
    IF settlement.settled = "resolved"
    THEN Finish(Returned(SuccessEnvelope(settlement.data)))
    ELSE Finish(Catch(settlement.error))

\* the owner taken from the arguments' username, not from GET /user
MutContentsPathArgsUsername(owner, args) ==
    "/repos/" \o Template(args.username) \o "/" \o Template(args.repo_name)
        \o "/contents/" \o Template(args.file_path)
\* `/repos/${username}/${repo_name}/contents/${file_path}`
ContentsPath(owner, args) ==
    "/repos/" \o Template(owner) \o "/" \o Template(args.repo_name)
        \o "/contents/" \o Template(args.file_path)

\* the catch block reports the failed identity GET but the handler goes on
\* to the file lookup
MutAfterUserNoReturn(settlement, args) ==
    IF settlement.settled = "resolved"
    THEN Await("awaitFile",
               Request("GET",
                       ContentsPath(Get(settlement.data, "login"), args),
                       Undefined))
    ELSE [pc |-> "awaitFile",
          issued |-> << Request("GET", ContentsPath(Undefined, args),
                                Undefined) >>,
          outcome |-> Catch(settlement.error)]
\* the identity GET wrapped in a swallowing try/catch like the file lookup
MutAfterUserSwallow(settlement, args) ==
    Await("awaitFile",
          Request("GET",
                  ContentsPath(IF settlement.settled = "resolved"
                               THEN Get(settlement.data, "login")
                               ELSE Undefined, args),
                  Undefined))
\* lines 249-257: after `await this.axiosInstance.get('/user')`
AfterUser(settlement, args) ==
    IF settlement.settled = "resolved"
    THEN Await("awaitFile",
               Request("GET",
                       ContentsPath(Get(settlement.data, "login"), args),
                       Undefined))
    ELSE Finish(Catch(settlement.error))

\* `let sha = ''`: the local starts as the empty string
MutShaAfterFileEmptyDefault(settlement) ==
    IF settlement.settled = "resolved" THEN Get(settlement.data, "sha")
    ELSE Str("")
\* lines 258-261: the sha after the file lookup; its catch swallows any error
ShaAfterFile(settlement) ==
    IF settlement.settled = "resolved" THEN Get(settlement.data, "sha")
    ELSE Undefined

\* the PUT body built without the sha property
MutPutRequestNoSha(settlement, owner, args) ==
    Await("awaitPut",
          Request("PUT", ContentsPath(owner, args),
                  [message |-> Nullish(args.message,
                                       Str("Update via GitHub MCP")),
                   content |-> Str(ToBase64(args.content.v)),
                   sha |-> Undefined]))
\* lines 264-271: the PUT issued after the file lookup
PutRequest(settlement, owner, args) ==
    Await("awaitPut",
          Request("PUT", ContentsPath(owner, args),
                  [message |-> Nullish(args.message,
                                       Str("Update via GitHub MCP")),
                   content |-> Str(ToBase64(args.content.v)),
                   sha |-> ShaAfterFile(settlement)]))

\* a failed lookup is issued anew instead of being taken as "no file"
MutAfterFileRetryLookup(settlement, owner, args) ==
    IF settlement.settled = "resolved"
    THEN PutRequest(settlement, owner, args)
    ELSE Await("awaitFile",
               Request("GET", ContentsPath(owner, args), Undefined))
\* no inner try/catch: a failed lookup reaches the handler's catch block
MutAfterFileNoSwallow(settlement, owner, args) ==
    IF settlement.settled = "resolved"
    THEN PutRequest(settlement, owner, args)
    ELSE Finish(Catch(settlement.error))
\* lines 252-271: after the file lookup settles, whatever it settled with
AfterFile(settlement, owner, args) ==
    PutRequest(settlement, owner, args)

(***************************************************************************)
(* State.                                                                  *)
(***************************************************************************)
VARIABLES
    pc,         \* position of each invocation of the handler
    request,    \* its request.params: name and arguments
    calls,      \* the upstream requests it has issued, in order
    settled,    \* what each of those requests settled with, in order
    username,   \* push_to_repo's local `username` (line 250)
    sha,        \* push_to_repo's local `sha` (line 253)
    outcome,    \* what the handler returned or threw
    credential, \* the token the axios instance was created with (line 53)
    file,       \* upstream: the blob sha of the target file, if it exists
    inflight    \* upstream: the answer on its way to each invocation

handler == <<pc, request, calls, settled, username, sha, outcome>>
upstream == <<file, inflight>>
vars == <<pc, request, calls, settled, username, sha, outcome,
          credential, file, inflight>>

Invocations == DOMAIN pc

NoRequest == [name |-> "", arguments |-> Undefined]
\* process.env.GITHUB_TOKEN (line 17), required for the process to start
GITHUB_TOKEN == "ghp_token"
\* no answer is on its way
NoSettlement == [settled |-> "none"]

InitWith(ids, files) ==
    /\ pc = [i \in ids |-> "idle"]
    /\ request = [i \in ids |-> NoRequest]
    /\ calls = [i \in ids |-> << >>]
    /\ settled = [i \in ids |-> << >>]
    /\ username = [i \in ids |-> Undefined]
    /\ sha = [i \in ids |-> Undefined]
    /\ outcome = [i \in ids |-> Pending]
    /\ credential = GITHUB_TOKEN
    /\ file \in files
    /\ inflight = [i \in ids |-> NoSettlement]

InitOf(ids) == InitWith(ids, {Undefined})

\* the server with one call-tool request to come
Init == InitOf({1})

\* what a step of invocation i leads to
Advance(i, step) ==
    /\ pc' = [pc EXCEPT ![i] = step.pc]
    /\ calls' = [calls EXCEPT ![i] = @ \o step.issued]
    /\ outcome' = [outcome EXCEPT ![i] = step.outcome]

\* a call-tool request with one of these names and arguments arrives: the
\* handler runs to its first await or to its end
CallToolRequestFrom(i, names, arguments) ==
    /\ pc[i] = "idle"
    /\ \E name \in names, args \in arguments :
         /\ request' = [request EXCEPT
                          ![i] = [name |-> name, arguments |-> args]]
         /\ Advance(i, Begin(name, args))
    /\ UNCHANGED <<settled, username, sha, credential>>

CallToolRequest(i) ==
    /\ CallToolRequestFrom(i, ToolNames \cup UnknownNames, Arguments)
    /\ UNCHANGED upstream

\* `await this.axiosInstance.get(`/users/${username}`)` settles with s
GetUserSettlesWith(i, s) ==
    /\ pc[i] = "awaitGetUser"
    /\ settled' = [settled EXCEPT ![i] = Append(@, s)]
    /\ Advance(i, End(s))
    /\ UNCHANGED <<request, username, sha, credential>>

\* `await this.axiosInstance.get(`/users/${username}`)` settles again and
\* again: a rejected GET is issued anew
MutGetUserSettlesRetry(i) ==
    /\ pc[i] = "awaitGetUser"
    /\ \E s \in Settlements(UserProfileBodies) :
         /\ settled' = [settled EXCEPT ![i] = Append(@, s)]
         /\ IF s.settled = "rejected"
            THEN Advance(i, Await("awaitGetUser", calls[i][1]))
            ELSE Advance(i, End(s))
    /\ UNCHANGED <<request, username, sha, credential, file, inflight>>
GetUserSettles(i) ==
    /\ \E s \in Settlements(UserProfileBodies) : GetUserSettlesWith(i, s)
    /\ UNCHANGED upstream

\* `await this.axiosInstance.post('/user/repos', ...)` settles with s
CreateRepoSettlesWith(i, s) ==
    /\ pc[i] = "awaitCreateRepo"
    /\ settled' = [settled EXCEPT ![i] = Append(@, s)]
    /\ Advance(i, End(s))
    /\ UNCHANGED <<request, username, sha, credential>>

CreateRepoSettles(i) ==
    /\ \E s \in Settlements(RepoBodies) : CreateRepoSettlesWith(i, s)
    /\ UNCHANGED upstream

\* `await this.axiosInstance.get('/user')` settles with s
UserSettlesWith(i, s) ==
    /\ pc[i] = "awaitUser"
    /\ settled' = [settled EXCEPT ![i] = Append(@, s)]
    /\ username' = [username EXCEPT
                      ![i] = IF s.settled = "resolved"
                             THEN Get(s.data, "login") ELSE @]
    /\ Advance(i, AfterUser(s, request[i].arguments))
    /\ UNCHANGED <<request, sha, credential>>

UserSettles(i) ==
    /\ \E s \in Settlements(IdentityBodies) : UserSettlesWith(i, s)
    /\ UNCHANGED upstream

\* the file lookup `await this.axiosInstance.get(`/repos/...`)` settles
\* with s
FileSettlesWith(i, s) ==
    /\ pc[i] = "awaitFile"
    /\ settled' = [settled EXCEPT ![i] = Append(@, s)]
    /\ sha' = [sha EXCEPT ![i] = ShaAfterFile(s)]
    /\ Advance(i, AfterFile(s, username[i], request[i].arguments))
    /\ UNCHANGED <<request, username, credential>>

\* `username` kept in one variable of the server object, shared by all
\* invocations: the PUT path uses whichever login was stored last
MutFileSettlesSharedUsername(i) ==
    /\ pc[i] = "awaitFile"
    /\ \E s \in Settlements(FileBodies), j \in Invocations :
         /\ username[j] # Undefined
         /\ settled' = [settled EXCEPT ![i] = Append(@, s)]
         /\ sha' = [sha EXCEPT ![i] = ShaAfterFile(s)]
         /\ Advance(i, AfterFile(s, username[j], request[i].arguments))
    /\ UNCHANGED <<request, username, credential, file, inflight>>
FileSettles(i) ==
    /\ \E s \in Settlements(FileBodies) : FileSettlesWith(i, s)
    /\ UNCHANGED upstream

\* `await this.axiosInstance.put(...)` settles with s
PutSettlesWith(i, s) ==
    /\ pc[i] = "awaitPut"
    /\ settled' = [settled EXCEPT ![i] = Append(@, s)]
    /\ Advance(i, End(s))
    /\ UNCHANGED <<request, username, sha, credential>>

PutSettles(i) ==
    /\ \E s \in Settlements(PutBodies) : PutSettlesWith(i, s)
    /\ UNCHANGED upstream

Next ==
    \/ \E i \in Invocations : CallToolRequest(i)
    \/ \E i \in Invocations : GetUserSettles(i)
    \/ \E i \in Invocations : CreateRepoSettles(i)
    \/ \E i \in Invocations : UserSettles(i)
    \/ \E i \in Invocations : FileSettles(i)
    \/ \E i \in Invocations : PutSettles(i)

Spec == Init /\ [][Next]_vars

(***************************************************************************)
(* Two invocations in flight at once: the runtime runs one handler until   *)
(* its next await and may then continue either of them.                    *)
(***************************************************************************)
TwoInvocations == {1, 2}

ConcurrentArguments ==
    [username : {Str("octocat")},
     repo_name : {Str("x"), Str("y")},
     description : {Undefined},
     private : {Undefined},
     file_path : {Str("README.md")},
     content : {Str(<<65>>)},
     message : {Undefined}]

ConcurrentInit == InitOf(TwoInvocations)

ConcurrentCallToolRequest(i) ==
    /\ CallToolRequestFrom(i, ToolNames, ConcurrentArguments)
    /\ UNCHANGED upstream

ConcurrentNext ==
    \/ \E i \in Invocations : ConcurrentCallToolRequest(i)
    \/ \E i \in Invocations : GetUserSettles(i)
    \/ \E i \in Invocations : CreateRepoSettles(i)
    \/ \E i \in Invocations : UserSettles(i)
    \/ \E i \in Invocations : FileSettles(i)
    \/ \E i \in Invocations : PutSettles(i)

ConcurrentSpec == ConcurrentInit /\ [][ConcurrentNext]_vars

\* every awaited upstream call settles in the end
UpstreamSettles ==
    \A i \in TwoInvocations :
        /\ WF_vars(GetUserSettles(i))
        /\ WF_vars(CreateRepoSettles(i))
        /\ WF_vars(UserSettles(i))
        /\ WF_vars(FileSettles(i))
        /\ WF_vars(PutSettles(i))

FairSpec == ConcurrentSpec /\ UpstreamSettles

(***************************************************************************)
(* Two push_to_repo invocations on the same owner, repository and path,    *)
(* against an upstream that keeps the file: the contents API answers a     *)
(* lookup with the file's blob sha (404 when there is none) and accepts a  *)
(* PUT only when its sha is the file's current one (no sha for a new       *)
(* file).  An answer is computed when the upstream serves the request and  *)
(* reaches the handler in a later step.                                    *)
(***************************************************************************)
SharedArguments ==
    [username : {Undefined},
     repo_name : {Str("x")},
     description : {Undefined},
     private : {Undefined},
     file_path : {Str("README.md")},
     content : {Str(<<65>>), Str(<<233>>)},
     message : {Undefined}]

SharedInit ==
    InitWith(TwoInvocations, {Undefined} \cup {Str(h) : h \in Hashes})

SharedCallToolRequest(i) ==
    /\ CallToolRequestFrom(i, {"push_to_repo"}, SharedArguments)
    /\ UNCHANGED upstream

Answer(i, s) ==
    /\ inflight[i] = NoSettlement
    /\ inflight' = [inflight EXCEPT ![i] = s]
    /\ UNCHANGED <<pc, request, calls, settled, username, sha, outcome,
                   credential>>

\* GET /user is served: the token's user
UpstreamServesUser(i) ==
    /\ pc[i] = "awaitUser"
    /\ Answer(i, Resolved(Obj(<< <<"login", Str("alice")>> >>)))
    /\ file' = file

\* GET contents is served: the file as it is now
UpstreamServesFile(i) ==
    /\ pc[i] = "awaitFile"
    /\ Answer(i, IF file = Undefined
                 THEN Rejected(AxiosError(
                          Response(404, Obj(<< <<"message",
                                                 Str("Not Found")>> >>)),
                          "Request failed with status code 404"))
                 ELSE Resolved(Obj(<< <<"type", Str("file")>>,
                                      <<"sha", file>> >>)))
    /\ file' = file

\* PUT contents is served: the file is written when the sha of the request
\* is the current one, else the request is refused
UpstreamServesPut(i) ==
    /\ pc[i] = "awaitPut"
    /\ IF calls[i][3].body.sha = file
       THEN \E h \in Hashes :
               /\ file' = Str(h)
               /\ Answer(i, Resolved(Obj(<< <<"content",
                                Obj(<< <<"sha", Str(h)>> >>)>> >>)))
       ELSE /\ file' = file
            /\ Answer(i, Rejected(AxiosError(
                             Response(409, Obj(<< <<"message",
                                 Str("README.md does not match")>> >>)),
                             "Request failed with status code 409")))

\* a request is not served: no response arrives
UpstreamUnreachable(i) ==
    /\ pc[i] \in {"awaitUser", "awaitFile", "awaitPut"}
    /\ Answer(i, Rejected(AxiosError(Undefined, "Network Error")))
    /\ file' = file

\* the answer on its way reaches the handler, which continues
AnswerArrives(i) ==
    /\ inflight[i] # NoSettlement
    /\ \/ UserSettlesWith(i, inflight[i])
       \/ FileSettlesWith(i, inflight[i])
       \/ PutSettlesWith(i, inflight[i])
    /\ inflight' = [inflight EXCEPT ![i] = NoSettlement]
    /\ file' = file

SharedNext ==
    \/ \E i \in Invocations : SharedCallToolRequest(i)
    \/ \E i \in Invocations : UpstreamServesUser(i)
    \/ \E i \in Invocations : UpstreamServesFile(i)
    \/ \E i \in Invocations : UpstreamServesPut(i)
    \/ \E i \in Invocations : UpstreamUnreachable(i)
    \/ \E i \in Invocations : AnswerArrives(i)

SharedSpec == SharedInit /\ [][SharedNext]_vars

(***************************************************************************)
(* Properties.                                                             *)
(***************************************************************************)
Started(i) == pc[i] # "idle"
Done(i) == pc[i] = "done"
Tool(i) == request[i].name
Args(i) == request[i].arguments

\* the k-th upstream call of invocation i has settled, and how
Answered(i, k) == k <= Len(settled[i])
Succeeded(i, k) == Answered(i, k) /\ settled[i][k].settled = "resolved"
\* rejected with an axios error: a non-2xx response or a network error
Failed(i, k) ==
    /\ Answered(i, k)
    /\ settled[i][k].settled = "rejected"
    /\ IsAxiosError(settled[i][k].error)
\* push_to_repo's second call is the existing-file lookup
IsLookup(i, k) == Tool(i) = "push_to_repo" /\ k = 2

IsEnvelope(i) == outcome[i].kind = "returned"
IsProtocolError(i) == outcome[i].kind = "thrown"

\* C1: a call-tool request naming a tool other than get_user, create_repo
\* and push_to_repo, whatever its arguments, ends by throwing
\* McpError(MethodNotFound, "Unknown tool: <name>"), returns no envelope and
\* issues no upstream request.
C1_UnknownToolRejected ==
    \A i \in Invocations :
        (Started(i) /\ Tool(i) \notin ToolNames) =>
            /\ Done(i)
            /\ ~IsEnvelope(i)
            /\ outcome[i] = Thrown([type |-> "McpError",
                                    code |-> "MethodNotFound",
                                    message |-> "Unknown tool: " \o Tool(i)])
            /\ calls[i] = << >>
C1_Witness ==
    \E i \in Invocations :
        /\ Done(i)
        /\ Tool(i) = "delete_repo"
        /\ Args(i) # Undefined
        /\ Args(i).username = Str("octocat")
        /\ IsProtocolError(i)

\* the required fields of each tool, in declaration order
Required(name) ==
    CASE name = "get_user" -> <<"username">>
      [] name = "create_repo" -> <<"repo_name">>
      [] name = "push_to_repo" -> <<"repo_name", "file_path", "content">>
      [] OTHER -> << >>
\* the field is absent or empty in the arguments
Missing(args, field) ==
    \/ args = Undefined
    \/ args[field] = Undefined
    \/ (args[field].t = "string" /\ Len(args[field].v) = 0)
MissingRequired(i) ==
    \E n \in 1..Len(Required(Tool(i))) : Missing(Args(i), Required(Tool(i))[n])

\* C2: for each of the three tools, whenever one of its required fields is
\* absent or empty in the arguments, the invocation ends by throwing
\* McpError(InvalidParams) and has issued no upstream request.
C2_MissingFieldInvalidParams ==
    \A i \in Invocations :
        (Started(i) /\ MissingRequired(i)) =>
            /\ Done(i)
            /\ IsProtocolError(i)
            /\ outcome[i].value.type = "McpError"
            /\ outcome[i].value.code = "InvalidParams"
            /\ calls[i] = << >>

\* the text the claim expects for an upstream failure: the body's message
\* field when the body has one, else the transport-level error text
FailureText(error) ==
    "GitHub API error: "
        \o (IF /\ error.response # Undefined
               /\ error.response.data.t = "object"
               /\ \E n \in 1..Len(error.response.data.v) :
                      error.response.data.v[n][1] = "message"
            THEN Get(error.response.data, "message").v
            ELSE error.message)

\* C3: whenever an upstream call other than push_to_repo's file lookup is
\* rejected with an axios error (a non-2xx response or a network error),
\* the invocation returns an envelope, not a protocol-level error, with
\* isError = true and exactly one text item "GitHub API error: <message>",
\* and an envelope with isError = true is returned in no other case.
C3_UpstreamFailureEnvelope ==
    \A i \in Invocations :
        /\ \A k \in 1..Len(settled[i]) :
              (Failed(i, k) /\ ~IsLookup(i, k)) =>
                  /\ Done(i)
                  /\ outcome[i] =
                        Returned([content |->
                                    << [type |-> "text",
                                        text |-> FailureText(
                                                   settled[i][k].error)] >>,
                                  isError |-> Bool(TRUE)])
        /\ (IsEnvelope(i) /\ outcome[i].value.isError = Bool(TRUE)) =>
              \E k \in 1..Len(settled[i]) : Failed(i, k) /\ ~IsLookup(i, k)
C3_Witness ==
    \E i \in Invocations :
        /\ Done(i)
        /\ Tool(i) = "push_to_repo"
        /\ Failed(i, 3)
        /\ settled[i][3].error.response # Undefined
        /\ outcome[i].value.content[1].text = "GitHub API error: Not Found"

\* every upstream call of the invocation other than the file lookup succeeded
AllSucceeded(i) ==
    /\ Done(i)
    /\ Len(settled[i]) >= 1
    /\ \A k \in 1..Len(settled[i]) : IsLookup(i, k) \/ Succeeded(i, k)
LastBody(i) == settled[i][Len(settled[i])].data
\* the pretty-printed text of the PUT body of PutBodies
PutBodyText ==
    "{\n  \"content\": {\n    \"sha\": \"0f3c9a\"\n  },\n  \"commit\": {}\n}"
SuccessText(i) ==
    /\ Len(outcome[i].value.content) = 1
    /\ outcome[i].value.content[1] =
          [type |-> "text", text |-> JsonStringify(LastBody(i))]
    /\ Tool(i) = "push_to_repo" =>
          outcome[i].value.content[1].text = PutBodyText

\* C4 as stated: when all non-swallowed upstream calls of an invocation
\* succeed, the returned envelope has exactly one text item, the
\* pretty-printed JSON of the body of the last upstream call, and its
\* isError field is false.
C4_SuccessEnvelopeIsErrorFalse ==
    \A i \in Invocations :
        AllSucceeded(i) =>
            /\ IsEnvelope(i)
            /\ SuccessText(i)
            /\ outcome[i].value.isError = Bool(FALSE)

\* C4 (amended): when all non-swallowed upstream calls of an invocation
\* succeed, the returned envelope has exactly one text item, the
\* pretty-printed JSON of the body of the last upstream call, and it has no
\* isError field (isError is undefined, never true).
C4_SuccessEnvelope ==
    \A i \in Invocations :
        AllSucceeded(i) =>
            /\ IsEnvelope(i)
            /\ SuccessText(i)
            /\ outcome[i].value.isError = Undefined
C4_Witness ==
    \E i \in Invocations :
        /\ AllSucceeded(i)
        /\ Tool(i) = "push_to_repo"
        /\ Len(settled[i]) = 3
        /\ outcome[i].value.content[1].text = PutBodyText

\* what the claims expect a handler to end with when its last upstream call
\* settled with s
ExpectedOutcome(s) ==
    IF s.settled = "resolved"
    THEN Returned([content |-> << [type |-> "text",
                                   text |-> JsonStringify(s.data)] >>,
                   isError |-> Undefined])
    ELSE IF IsAxiosError(s.error)
    THEN Returned([content |-> << [type |-> "text",
                                   text |-> FailureText(s.error)] >>,
                   isError |-> Bool(TRUE)])
    ELSE Thrown(s.error)

\* a push_to_repo invocation whose arguments pass validation
ValidPush(i) ==
    /\ Started(i)
    /\ Tool(i) = "push_to_repo"
    /\ ~MissingRequired(i)
\* the path the claims expect for the contents of the target file
ExpectedContentsPath(i) ==
    "/repos/" \o Get(settled[i][1].data, "login").v
        \o "/" \o Args(i).repo_name.v
        \o "/contents/" \o Args(i).file_path.v
\* the file lookup was answered 404: there is no file at the target path
NoExistingFile(i) ==
    /\ Failed(i, 2)
    /\ settled[i][2].error.response # Undefined
    /\ settled[i][2].error.response.status = 404

\* C5 as stated: for a valid push_to_repo invocation whose target path has
\* no existing file upstream, exactly two upstream calls occur in total,
\* GET /user then the PUT, the PUT carries no sha, and the outcome is that
\* of the PUT alone.
C5_NoFileTwoCalls ==
    \A i \in Invocations :
        (ValidPush(i) /\ Done(i) /\ NoExistingFile(i)) =>
            /\ Len(calls[i]) = 2
            /\ calls[i][1] = Request("GET", "/user", Undefined)
            /\ calls[i][2].method = "PUT"
            /\ calls[i][2].body.sha = Undefined
            /\ outcome[i] = ExpectedOutcome(settled[i][Len(settled[i])])

\* C5 (amended): for a valid push_to_repo invocation whose target path has
\* no existing file upstream (the file lookup is answered 404), exactly
\* three upstream calls occur in total, GET /user, the lookup GET of the
\* contents path, then the PUT to that path; the PUT carries no sha, and the
\* outcome is that of the PUT alone.
C5_NoFileThreeCalls ==
    \A i \in Invocations :
        (ValidPush(i) /\ NoExistingFile(i)) =>
            /\ Len(calls[i]) = 3
            /\ calls[i][1] = Request("GET", "/user", Undefined)
            /\ calls[i][2] = Request("GET", ExpectedContentsPath(i), Undefined)
            /\ calls[i][3].method = "PUT"
            /\ calls[i][3].path = ExpectedContentsPath(i)
            /\ calls[i][3].body.sha = Undefined
            /\ Done(i) =>
                  /\ Len(settled[i]) = 3
                  /\ outcome[i] = ExpectedOutcome(settled[i][3])
C5_Witness ==
    \E i \in Invocations :
        /\ ValidPush(i)
        /\ NoExistingFile(i)
        /\ Done(i)
        /\ Succeeded(i, 3)
        /\ IsEnvelope(i)

\* the body of the answered file lookup has a sha property
HasSha(i) ==
    /\ Succeeded(i, 2)
    /\ settled[i][2].data.t = "object"
    /\ \E n \in 1..Len(settled[i][2].data.v) :
          settled[i][2].data.v[n][1] = "sha"
\* the invocation has issued its PUT
PutIssued(i) == Tool(i) = "push_to_repo" /\ Len(calls[i]) = 3
\* GET /user, GET of the contents path, PUT to the same path, in this order
ThreeCallsInOrder(i) ==
    /\ Len(calls[i]) = 3
    /\ calls[i][1] = Request("GET", "/user", Undefined)
    /\ calls[i][2] = Request("GET", ExpectedContentsPath(i), Undefined)
    /\ calls[i][3].method = "PUT"
    /\ calls[i][3].path = ExpectedContentsPath(i)

\* C6 as stated: for a valid push_to_repo invocation whose identity GET
\* succeeds and whose file lookup succeeds returning hash h, exactly three
\* upstream calls occur, GET /user, GET of the contents path under the
\* login returned by GET /user, PUT to the same path, with the PUT's sha
\* equal to h; and the PUT carries a sha if and only if the lookup succeeded.
C6_ShaIffLookupSucceeded ==
    \A i \in Invocations :
        /\ (ValidPush(i) /\ HasSha(i)) =>
              /\ ThreeCallsInOrder(i)
              /\ calls[i][3].body.sha = Get(settled[i][2].data, "sha")
        /\ PutIssued(i) =>
              (calls[i][3].body.sha # Undefined <=> Succeeded(i, 2))

\* C6 (amended): for a valid push_to_repo invocation whose identity GET
\* succeeds and whose file lookup succeeds returning hash h, exactly three
\* upstream calls occur, GET /user, GET of the contents path under the
\* login returned by GET /user, PUT to the same path, with the PUT's sha
\* equal to h; and the PUT carries a sha if and only if the lookup succeeded
\* with a body that has a sha (a file, not a directory listing).
C6_ShaIffLookupReturnedSha ==
    \A i \in Invocations :
        /\ (ValidPush(i) /\ HasSha(i)) =>
              /\ ThreeCallsInOrder(i)
              /\ calls[i][3].body.sha.t = "string"
              /\ \E n \in 1..Len(settled[i][2].data.v) :
                    settled[i][2].data.v[n] =
                        <<"sha", calls[i][3].body.sha>>
              /\ Done(i) => Len(calls[i]) = 3
        /\ PutIssued(i) =>
              (calls[i][3].body.sha # Undefined <=> HasSha(i))
C6_Witness ==
    \E i \in Invocations :
        /\ ValidPush(i)
        /\ Done(i)
        /\ HasSha(i)
        /\ Get(settled[i][1].data, "login") = Str("bob")
        /\ calls[i][3].body.sha = Str("abc123")
        /\ calls[i][3].path = "/repos/bob/x/contents/README.md"

\* the file lookup was answered with a failure of any kind
LookupFailed(i) ==
    /\ Tool(i) = "push_to_repo"
    /\ Answered(i, 2)
    /\ settled[i][2].settled = "rejected"
NumberOfPuts(i) ==
    Cardinality({k \in 1..Len(calls[i]) : calls[i][k].method = "PUT"})

\* C7: in push_to_repo a failure of the file lookup, of any kind, is never
\* surfaced: the invocation still issues the PUT exactly once, with no sha,
\* and what it ends with depends only on the outcome of the PUT.
C7_LookupFailureSwallowed ==
    \A i \in Invocations :
        LookupFailed(i) =>
            /\ Len(calls[i]) = 3
            /\ calls[i][3].method = "PUT"
            /\ NumberOfPuts(i) = 1
            /\ calls[i][3].body.sha = Undefined
            /\ Len(settled[i]) = 2 => ~Done(i) /\ outcome[i] = Pending
            /\ Done(i) =>
                  /\ Len(settled[i]) = 3
                  /\ outcome[i] = ExpectedOutcome(settled[i][3])
C7_Witness ==
    \E i \in Invocations :
        /\ LookupFailed(i)
        /\ settled[i][2].error.type = "AxiosError"
        /\ settled[i][2].error.response = Undefined
        /\ Done(i)
        /\ Failed(i, 3)
        /\ outcome[i].value.isError = Bool(TRUE)

IsErrorEnvelope(i) ==
    IsEnvelope(i) /\ outcome[i].value.isError = Bool(TRUE)
IsSuccessEnvelope(i) ==
    IsEnvelope(i) /\ outcome[i].value.isError # Bool(TRUE)

\* C8: in a valid push_to_repo invocation, if GET /user fails the invocation
\* returns an isError envelope and issues neither the lookup nor the PUT;
\* if the PUT fails it returns an isError envelope although GET /user and
\* the lookup were already executed; it returns a success envelope only if
\* both GET /user and the PUT succeeded.
C8_PushReportedAtomically ==
    \A i \in Invocations :
        ValidPush(i) =>
            /\ Failed(i, 1) =>
                  /\ Done(i)
                  /\ IsErrorEnvelope(i)
                  /\ calls[i] = << Request("GET", "/user", Undefined) >>
            /\ Failed(i, 3) =>
                  /\ Done(i)
                  /\ IsErrorEnvelope(i)
                  /\ Succeeded(i, 1)
                  /\ Answered(i, 2)
                  /\ Len(calls[i]) = 3
            /\ IsSuccessEnvelope(i) => Succeeded(i, 1) /\ Succeeded(i, 3)
C8_Witness ==
    \E i \in Invocations :
        /\ ValidPush(i)
        /\ Failed(i, 1)
        /\ Done(i)
        /\ IsErrorEnvelope(i)

\* a create_repo invocation whose arguments pass validation
ValidCreateRepo(i) ==
    /\ Started(i)
    /\ Tool(i) = "create_repo"
    /\ ~MissingRequired(i)

\* C9: a valid create_repo invocation issues exactly one upstream call, a
\* POST to /user/repos whose body has name = repo_name, description = the
\* supplied description (undefined when none) and private = the supplied
\* value, false when none; with only repo_name = "x" the body is
\* {name: "x", description: undefined, private: false}.
C9_CreateRepoBody ==
    \A i \in Invocations :
        ValidCreateRepo(i) =>
            /\ Len(calls[i]) = 1
            /\ calls[i][1].method = "POST"
            /\ calls[i][1].path = "/user/repos"
            /\ calls[i][1].body.name = Args(i).repo_name
            /\ calls[i][1].body.description = Args(i).description
            /\ calls[i][1].body.private =
                  (IF Args(i).private \in {Bool(TRUE), Bool(FALSE)}
                   THEN Args(i).private ELSE Bool(FALSE))
            /\ DOMAIN calls[i][1].body = {"name", "description", "private"}
            /\ ( /\ Args(i).repo_name = Str("x")
                 /\ Args(i).description = Undefined
                 /\ Args(i).private = Undefined ) =>
                  calls[i][1].body = [name |-> Str("x"),
                                      description |-> Undefined,
                                      private |-> Bool(FALSE)]
C9_Witness ==
    \E i \in Invocations :
        /\ ValidCreateRepo(i)
        /\ Done(i)
        /\ Args(i).private = Bool(TRUE)
        /\ Args(i).description = Str("d")
        /\ calls[i][1].body.private = Bool(TRUE)

\* base64 decoding (RFC 4648) of padded text
Base64Index(ch) == CHOOSE n \in 0..63 : Base64Alphabet[n + 1] = ch
RECURSIVE Base64Decode(_)
Base64Decode(chars) ==
    IF Len(chars) < 4 THEN << >>
    ELSE LET a == Base64Index(chars[1])
             b == Base64Index(chars[2])
         IN  IF chars[3] = "=" THEN << a * 4 + (b \div 16) >>
             ELSE LET c == Base64Index(chars[3]) IN
                  IF chars[4] = "="
                  THEN << a * 4 + (b \div 16), (b % 16) * 16 + (c \div 4) >>
                  ELSE << a * 4 + (b \div 16), (b % 16) * 16 + (c \div 4),
                          (c % 4) * 64 + Base64Index(chars[4]) >>
                       \o Base64Decode(SubSeq(chars, 5, Len(chars)))

\* C10: for every accepted content string given to push_to_repo, the
\* content field of the PUT body is the base64 encoding of the content's
\* (UTF-8) bytes, and base64-decoding the field yields exactly those bytes.
C10_ContentBase64RoundTrip ==
    \A i \in Invocations :
        PutIssued(i) =>
            LET field == calls[i][3].body.content
                content == Args(i).content.v
            IN  /\ field.t = "string"
                /\ Len(field.v) = 4 * ((Len(Utf8Encode(content)) + 2) \div 3)
                /\ Base64Decode(field.v) = Utf8Encode(content)
                /\ content = <<65>> => field.v = <<"Q", "Q", "=", "=">>
                /\ content = <<233>> => field.v = <<"w", "6", "k", "=">>
                /\ content = <<55357>> => field.v = <<"7", "7", "+", "9">>
C10_Witness ==
    \E i \in Invocations :
        /\ PutIssued(i)
        /\ Args(i).content.v = <<55357, 56832>>
        /\ calls[i][3].body.content.v
               = <<"8", "J", "+", "Y", "g", "A", "=", "=">>
        /\ Base64Decode(calls[i][3].body.content.v) = <<240, 159, 152, 128>>

\* the k-th upstream call of invocation i raised an exception that is not an
\* upstream (axios) failure
RaisedOther(i, k) ==
    /\ Answered(i, k)
    /\ settled[i][k].settled = "rejected"
    /\ ~IsAxiosError(settled[i][k].error)

\* C11: an exception raised inside a handler that is not an upstream failure
\* is never swallowed and never wrapped in an isError envelope: at whichever
\* step it is raised, each of push_to_repo's three steps included, the
\* invocation ends by throwing it and issues no further upstream call.
C11_OtherExceptionPropagates ==
    \A i \in Invocations :
        \A k \in 1..Len(settled[i]) :
            RaisedOther(i, k) =>
                /\ Done(i)
                /\ outcome[i] = Thrown(settled[i][k].error)
                /\ Len(calls[i]) = k

\* the fields a validation message names
FieldsNamed(message) ==
    CASE message = "Username is required" -> {"username"}
      [] message = "Repository name is required" -> {"repo_name"}
      [] message = "File path is required" -> {"file_path"}
      [] message = "Content is required" -> {"content"}
      [] message = "Repository name, file path, and content are required" ->
            {"repo_name", "file_path", "content"}
      [] OTHER -> {}
\* the first required field, in declaration order, that is absent or empty
FirstMissing(i) ==
    Required(Tool(i))[CHOOSE n \in 1..Len(Required(Tool(i))) :
        /\ Missing(Args(i), Required(Tool(i))[n])
        /\ \A m \in 1..(n - 1) : ~Missing(Args(i), Required(Tool(i))[m])]
IsInvalidParams(i) ==
    /\ IsProtocolError(i)
    /\ outcome[i].value.type = "McpError"
    /\ outcome[i].value.code = "InvalidParams"

\* C12 as stated: when validation fails on an arguments mapping, the
\* protocol-level error names the first missing required field, in
\* declaration order, and only that one.
C12_ErrorNamesFirstMissing ==
    \A i \in Invocations :
        (Started(i) /\ Args(i) # Undefined /\ MissingRequired(i)) =>
            /\ IsInvalidParams(i)
            /\ FieldsNamed(outcome[i].value.message) = {FirstMissing(i)}

\* C12 (amended): when validation fails the invocation ends in an
\* InvalidParams error whose message is fixed per tool: "Username is
\* required" for get_user, "Repository name is required" for create_repo,
\* and for push_to_repo always "Repository name, file path, and content are
\* required", which names all three required fields whichever of them is
\* the first absent or empty one.
C12_ErrorMessagePerTool ==
    \A i \in Invocations :
        IsInvalidParams(i) =>
            /\ Done(i)
            /\ Args(i) # Undefined
            /\ MissingRequired(i)
            /\ Tool(i) = "get_user" =>
                  outcome[i].value.message = "Username is required"
            /\ Tool(i) = "create_repo" =>
                  outcome[i].value.message = "Repository name is required"
            /\ Tool(i) = "push_to_repo" =>
                  /\ outcome[i].value.message =
                        "Repository name, file path, and content are required"
                  /\ FieldsNamed(outcome[i].value.message)
                        = {"repo_name", "file_path", "content"}
            /\ FirstMissing(i) \in FieldsNamed(outcome[i].value.message)
C12_Witness ==
    \E i \in Invocations :
        /\ IsInvalidParams(i)
        /\ Tool(i) = "push_to_repo"
        /\ FirstMissing(i) = "content"
        /\ Args(i).content = Str(<< >>)
        /\ outcome[i].value.message =
              "Repository name, file path, and content are required"

\* C13 as stated: no invocation performs more than two upstream calls.
C13_AtMostTwoCalls ==
    \A i \in Invocations : Len(calls[i]) <= 2

\* C13 (amended): no invocation of any tool, with any arguments and any
\* upstream responses, performs more than three upstream calls (get_user
\* and create_repo one, push_to_repo up to three).
C13_AtMostThreeCalls ==
    \A i \in Invocations :
        /\ Len(calls[i]) <= 3
        /\ Tool(i) # "push_to_repo" => Len(calls[i]) <= 1
C13_Witness ==
    \E i \in Invocations :
        /\ Done(i)
        /\ Len(calls[i]) = 3
        /\ Len(settled[i]) = 3

\* a get_user invocation whose arguments pass validation
ValidGetUser(i) ==
    /\ Started(i)
    /\ Tool(i) = "get_user"
    /\ ~MissingRequired(i)
\* which of the five upstream requests the k-th call of invocation i is
RequestKind(i, k) ==
    CASE calls[i][k].method = "POST" -> "POST /user/repos"
      [] calls[i][k].method = "PUT" -> "PUT contents"
      [] calls[i][k].path = "/user" -> "GET /user"
      [] Tool(i) = "get_user" -> "GET /users/{username}"
      [] OTHER -> "GET contents"

\* C14: no upstream call is ever retried: within one invocation each
\* upstream request is attempted at most once, whether it succeeds or
\* fails, and a valid get_user invocation makes exactly one GET to
\* /users/{username} and nothing else.
C14_NoRetry ==
    \A i \in Invocations :
        /\ \A j, k \in 1..Len(calls[i]) :
              j # k =>
                  /\ RequestKind(i, j) # RequestKind(i, k)
                  /\ <<calls[i][j].method, calls[i][j].path>>
                        # <<calls[i][k].method, calls[i][k].path>>
        /\ Len(settled[i]) <= Len(calls[i])
        /\ Done(i) => Len(settled[i]) = Len(calls[i])
        /\ ValidGetUser(i) =>
              calls[i] = << [method |-> "GET",
                             path |-> "/users/" \o Args(i).username.v,
                             body |-> Undefined] >>
C14_Witness ==
    \E i \in Invocations :
        /\ ValidGetUser(i)
        /\ Done(i)
        /\ Failed(i, 1)
        /\ calls[i][1].path = "/users/octocat"
        /\ Len(calls[i]) = 1

\* one handler run alone on the request req whose upstream calls settle with
\* the settlements ss, in order: its position, calls, locals and outcome
RunAlone(req, ss) ==
    LET args == req.arguments
        begin == Begin(req.name, args)
        start == [pc |-> begin.pc, calls |-> begin.issued,
                  username |-> Undefined, sha |-> Undefined,
                  outcome |-> begin.outcome]
        Then(state, step) ==
            [state EXCEPT !.pc = step.pc,
                          !.calls = @ \o step.issued,
                          !.outcome = step.outcome]
        afterUser ==
            [Then(start, AfterUser(ss[1], args)) EXCEPT
                !.username = IF ss[1].settled = "resolved"
                             THEN Get(ss[1].data, "login") ELSE @]
        afterFile ==
            [Then(afterUser, AfterFile(ss[2], afterUser.username, args))
                EXCEPT !.sha = ShaAfterFile(ss[2])]
    IN  IF Len(ss) = 0 THEN start
        ELSE IF req.name # "push_to_repo" THEN Then(start, End(ss[1]))
        ELSE IF Len(ss) = 1 THEN afterUser
        ELSE IF Len(ss) = 2 THEN afterFile
        ELSE Then(afterFile, End(ss[3]))

\* C15: under any interleaving of two invocations at their awaits, the
\* upstream requests of each invocation (paths and bodies, with the owner
\* and sha it uses), its locals and its outcome are those of the same
\* handler run alone on its own arguments and its own upstream answers; the
\* credential is never modified.
C15_InvocationsIndependent ==
    /\ credential = GITHUB_TOKEN
    /\ \A i \in Invocations :
          Started(i) =>
              [pc |-> pc[i], calls |-> calls[i], username |-> username[i],
               sha |-> sha[i], outcome |-> outcome[i]]
                  = RunAlone(request[i], settled[i])
C15_Witness ==
    \E i, j \in Invocations :
        /\ i # j
        /\ Tool(i) = "push_to_repo" /\ Tool(j) = "push_to_repo"
        /\ Done(i) /\ pc[j] = "awaitPut"
        /\ username[i] = Str("alice") /\ username[j] = Str("bob")
        /\ calls[i][3].path = "/repos/alice/x/contents/README.md"
        /\ calls[j][3].path = "/repos/bob/y/contents/README.md"
        /\ sha[i] = Str("abc123") /\ sha[j] = Undefined

\* the invocation has its terminal outcome: one envelope or one protocol
\* error
HasOutcome(i) == outcome[i] # Pending

\* C17: provided every upstream call eventually settles, every call-tool
\* invocation eventually reaches exactly one terminal outcome, either one
\* envelope or one protocol-level error, and after it the invocation makes
\* no further upstream call and its outcome does not change.
C17_EventuallyOneOutcome ==
    /\ \A i \in TwoInvocations : Started(i) ~> (Done(i) /\ HasOutcome(i))
    /\ [](\A i \in TwoInvocations :
            /\ HasOutcome(i) <=> Done(i)
            /\ HasOutcome(i) => (IsEnvelope(i) /\ ~IsProtocolError(i))
                                \/ (IsProtocolError(i) /\ ~IsEnvelope(i)))
    /\ [][\A i \in TwoInvocations :
            HasOutcome(i) =>
                /\ outcome'[i] = outcome[i]
                /\ calls'[i] = calls[i]
                /\ settled'[i] = settled[i]]_vars
C17_Witness ==
    \E i, j \in Invocations :
        /\ i # j
        /\ Done(i) /\ IsEnvelope(i) /\ Len(calls[i]) = 3
        /\ Done(j) /\ IsProtocolError(j)
        /\ Len(settled[j]) = 1

\* C16 as stated: with two push_to_repo invocations on the same file and a
\* shared upstream file, whenever an invocation issues its PUT while the
\* file exists upstream, the sha of that PUT is the file's current hash at
\* that moment.
C16_PutShaIsCurrent ==
    [][\A i \in TwoInvocations :
          (pc[i] = "awaitFile" /\ pc'[i] = "awaitPut" /\ file' # Undefined)
              => calls'[i][3].body.sha = file']_vars

\* C16 (amended): with two push_to_repo invocations on the same file and a
\* shared upstream file, the sha of an invocation's PUT is the hash its own
\* lookup was answered with, and none when its lookup failed; it may be
\* stale or absent when the PUT is issued, and a PUT that fails for that
\* reason ends the invocation with an isError envelope.
C16_PutShaIsLookupSha ==
    \A i \in Invocations :
        /\ PutIssued(i) =>
              /\ Answered(i, 2)
              /\ calls[i][3].path = "/repos/alice/x/contents/README.md"
              /\ HasSha(i) =>
                    << "sha", calls[i][3].body.sha >>
                        = settled[i][2].data.v[2]
              /\ ~HasSha(i) => calls[i][3].body.sha = Undefined
        /\ Failed(i, 3) => Done(i) /\ IsErrorEnvelope(i)
\* a stale PUT: issued with the hash read by the lookup after the other
\* invocation's PUT has replaced the file
C16_Witness ==
    \E i, j \in Invocations :
        /\ i # j
        /\ pc[i] = "awaitPut" /\ inflight[i] = NoSettlement
        /\ Succeeded(j, 3)
        /\ HasSha(i)
        /\ calls[i][3].body.sha = Str("abc123")
        /\ file = Str("def456")

====
